---- MODULE Spec2Model ----
(***************************************************************************)
(* Model of ai-code-review: the tolerant response parser                   *)
(* (llm/base.py, LLMProvider._parse_review), the review result             *)
(* (ReviewResult.is_blocked / summary) and the push-range resolution       *)
(* (git.py, get_push_diff).                                                *)
(*                                                                         *)
(* Text is a sequence of chunks.  A chunk is one significant character     *)
(* (a quote, a bracket, a newline, a backtick, ...) or an unsplittable run *)
(* of ordinary characters ("severity", "json", "a.c", "1.9").  The string  *)
(* operations of the code (strip, startswith, split, rsplit) and the JSON  *)
(* decoder only ever cut text at significant characters.                   *)
(***************************************************************************)
EXTENDS Integers, Sequences, FiniteSets, TLC

VARIABLES
    \* LLMProvider._parse_review
    content,      \* the raw reply text (argument)
    text,         \* local `text`
    items,        \* local `items`: the decoded JSON value
    iter,         \* the sequence `for item in items` walks
    idx,          \* position of the loop in iter
    issues,       \* local `issues`
    pc,           \* position in _parse_review
    exc,          \* the exception that left _parse_review ("none": it returned)
    \* ReviewResult
    rissues,      \* ReviewResult.issues
    rpos,         \* position of the running loop in rissues
    blocked,      \* value of is_blocked
    counts,       \* local `counts` of summary
    rpc,          \* position in is_blocked / summary
    \* get_push_diff
    local_sha, remote_sha, extensions,
    cand,         \* index of base_ref in the candidate list
    merge_base,   \* local `merge_base`
    gitlog,       \* every git command run, with its outcome
    result,       \* the returned diff
    gexc,         \* the exception that left get_push_diff
    gpc,          \* position in get_push_diff
    \* one call of a provider method
    provider,     \* which LLMProvider subclass
    method,       \* health_check, review_code or improve_commit_msg
    wire,         \* what the HTTP request came back with
    attempts,     \* requests sent for this call
    reply,        \* the text _chat returned
    ret,          \* the value the method returned
    cexc,         \* the exception that left the method
    cpc,          \* position in the method
    \* one invocation of the command line (review, check-commit, health-check)
    command,      \* the command invoked
    graceful,     \* --graceful
    output_format,\* --format
    config,       \* what the stored configuration and the environment resolve to
    commit_msg,   \* check-commit: the commit message read
    file_text,    \* check-commit: the content of the message file ("none": no file given)
    diff,         \* the lines of the staged diff
    returned,     \* what the provider method returned to the command
    output,       \* what was printed, in order
    exit_code,    \* exit status of the process
    kpc,          \* position in the command
    custom_rules, \* config.get("review", "custom_rules")
    calls,        \* the calls the command has made, in order
    \* two concurrent invocations of `config set`
    config_file,  \* the content of config.toml
    initial_file, \* its content before the two invocations
    set_args,     \* per invocation: the key and the value given
    data,         \* per invocation: Config._data
    spc           \* per invocation: position in config_set

parseVars == <<content, text, items, iter, idx, issues, pc, exc>>
resultVars == <<rissues, rpos, blocked, counts, rpc>>
pushVars == <<local_sha, remote_sha, extensions, cand, merge_base, gitlog, result, gexc, gpc>>
chatVars == <<provider, method, wire, attempts, reply, ret, cexc, cpc>>
coreVars == <<parseVars, resultVars, pushVars>>
cliVars == <<command, graceful, output_format, config, commit_msg, file_text, diff, returned,
             output, exit_code, kpc, custom_rules, calls>>
configVars == <<config_file, initial_file, set_args, data, spc>>
appVars == <<chatVars, cliVars, configVars>>
vars == <<content, text, items, iter, idx, issues, pc, exc,
          rissues, rpos, blocked, counts, rpc,
          local_sha, remote_sha, extensions, cand, merge_base, gitlog, result, gexc, gpc,
          provider, method, wire, attempts, reply, ret, cexc, cpc,
          command, graceful, output_format, config, commit_msg, file_text, diff, returned,
          output, exit_code, kpc, custom_rules, calls,
          config_file, initial_file, set_args, data, spc>>

(***************************************************************************)
(* Bounds of the model                                                     *)
(***************************************************************************)
\* longest JSON array of the replies that are enumerated
MaxItems == 2
\* longest ReviewResult.issues that is enumerated
MaxIssues == 4

(***************************************************************************)
(* Text                                                                    *)
(***************************************************************************)
Backtick == "<backtick>"
Quote == "\""
Newline == "\n"
Space == " "
FormFeed == "\f"

\* str.strip() strips Python whitespace; the JSON decoder skips only JSON whitespace
PyWhitespace == {Space, Newline, "\t", "\r", FormFeed}
JsonWhitespace == {Space, Newline, "\t", "\r"}

Min(S) == CHOOSE m \in S : \A k \in S : m <= k
Max(S) == CHOOSE m \in S : \A k \in S : m >= k

\* str.strip()
Strip(t) ==
    LET keep == {i \in 1..Len(t) : t[i] \notin PyWhitespace}
    IN  IF keep = {} THEN <<>> ELSE SubSeq(t, Min(keep), Max(keep))

\* str.startswith(prefix)
StartsWith(t, prefix) ==
    Len(t) >= Len(prefix) /\ SubSeq(t, 1, Len(prefix)) = prefix

\* the positions where sep occurs in t
Occurrences(t, sep) ==
    {i \in 1..(Len(t) - Len(sep) + 1) : SubSeq(t, i, i + Len(sep) - 1) = sep}

\* str.split(sep, 1): one piece when sep is absent, else two
Split1(t, sep) ==
    LET occ == Occurrences(t, sep)
    IN  IF occ = {} THEN <<t>>
        ELSE <<SubSeq(t, 1, Min(occ) - 1), SubSeq(t, Min(occ) + Len(sep), Len(t))>>

\* str.rsplit(sep, 1): cut at the last occurrence
RSplit1(t, sep) ==
    LET occ == Occurrences(t, sep)
    IN  IF occ = {} THEN <<t>>
        ELSE <<SubSeq(t, 1, Max(occ) - 1), SubSeq(t, Max(occ) + Len(sep), Len(t))>>

Fence == <<Backtick, Backtick, Backtick>>

(***************************************************************************)
(* JSON values, as json.loads builds them.  One record shape for all:      *)
(* t the Python type, n the integer value (for a float its integer part,   *)
(* which is what int() keeps), s the chunks of a str, a the elements of a  *)
(* list, or the keys and values of a dict alternating in source order.     *)
(***************************************************************************)
JV(t, n, s, a) == [t |-> t, n |-> n, s |-> s, a |-> a]
JNull == JV("NoneType", 0, <<>>, <<>>)
JBool(b) == JV("bool", IF b THEN 1 ELSE 0, <<>>, <<>>)
JInt(n) == JV("int", n, <<>>, <<>>)
JFloat(n, lit) == JV("float", n, <<lit>>, <<>>)
JInf == JV("float", 0, <<"Infinity">>, <<>>)
JNaN == JV("float", 0, <<"NaN">>, <<>>)
JStr(s) == JV("str", 0, s, <<>>)
JArr(a) == JV("list", 0, <<>>, a)
JObj(kv) == JV("dict", 0, <<>>, kv)

\* the integer literals that occur as one chunk, with their values
IntLiteral == ("0" :> 0) @@ ("1" :> 1) @@ ("5" :> 5) @@ ("7" :> 7) @@ ("-1" :> (0 - 1))

\* the one-chunk literals of the JSON grammar (Python's decoder accepts NaN and Infinity)
Literal ==
    [c \in DOMAIN IntLiteral |-> JInt(IntLiteral[c])]
    @@ ("1.9" :> JFloat(1, "1.9")) @@ ("-1.9" :> JFloat(0 - 1, "-1.9"))
    @@ ("Infinity" :> JInf) @@ ("NaN" :> JNaN)
    @@ ("null" :> JNull) @@ ("true" :> JBool(TRUE)) @@ ("false" :> JBool(FALSE))

DecodeFail == [ok |-> FALSE, v |-> JNull, p |-> 0]
DecodeOk(v, p) == [ok |-> TRUE, v |-> v, p |-> p]

RECURSIVE SkipWs(_, _)
SkipWs(t, p) ==
    IF p <= Len(t) /\ t[p] \in JsonWhitespace THEN SkipWs(t, p + 1) ELSE p

\* a string literal, p just after the opening quote; a raw control character
\* inside a string is an error (strict mode)
RECURSIVE ScanString(_, _, _)
ScanString(t, p, acc) ==
    IF p > Len(t) THEN DecodeFail
    ELSE IF t[p] = Quote THEN DecodeOk(JStr(acc), p + 1)
    ELSE IF t[p] \in {Newline, "\t", "\r", FormFeed} THEN DecodeFail
    ELSE ScanString(t, p + 1, Append(acc, t[p]))

RECURSIVE ScanValue(_, _)
RECURSIVE ScanElements(_, _, _)
RECURSIVE ScanMembers(_, _, _)

\* one JSON value starting at p (after whitespace)
ScanValue(t, p0) ==
    LET p == SkipWs(t, p0)
    IN  IF p > Len(t) THEN DecodeFail
        ELSE IF t[p] = "[" THEN
            LET q == SkipWs(t, p + 1)
            IN  IF q <= Len(t) /\ t[q] = "]" THEN DecodeOk(JArr(<<>>), q + 1)
                ELSE ScanElements(t, p + 1, <<>>)
        ELSE IF t[p] = "{" THEN
            LET q == SkipWs(t, p + 1)
            IN  IF q <= Len(t) /\ t[q] = "}" THEN DecodeOk(JObj(<<>>), q + 1)
                ELSE ScanMembers(t, p + 1, <<>>)
        ELSE IF t[p] = Quote THEN ScanString(t, p + 1, <<>>)
        ELSE IF t[p] \in DOMAIN Literal THEN DecodeOk(Literal[t[p]], p + 1)
        ELSE DecodeFail

\* the elements of an array: a value, then "," or "]"
ScanElements(t, p, acc) ==
    LET r == ScanValue(t, p)
    IN  IF ~r.ok THEN DecodeFail
        ELSE LET q == SkipWs(t, r.p)
             IN  IF q > Len(t) THEN DecodeFail
                 ELSE IF t[q] = "," THEN ScanElements(t, q + 1, Append(acc, r.v))
                 ELSE IF t[q] = "]" THEN DecodeOk(JArr(Append(acc, r.v)), q + 1)
                 ELSE DecodeFail

\* the members of an object: a string key, ":", a value, then "," or "}"
ScanMembers(t, p0, acc) ==
    LET p == SkipWs(t, p0)
    IN  IF p > Len(t) \/ t[p] # Quote THEN DecodeFail
        ELSE LET k == ScanString(t, p + 1, <<>>)
             IN  IF ~k.ok THEN DecodeFail
                 ELSE LET c == SkipWs(t, k.p)
                      IN  IF c > Len(t) \/ t[c] # ":" THEN DecodeFail
                          ELSE LET r == ScanValue(t, c + 1)
                               IN  IF ~r.ok THEN DecodeFail
                                   ELSE LET q == SkipWs(t, r.p)
                                            kv == acc \o <<k.v, r.v>>
                                        IN  IF q > Len(t) THEN DecodeFail
                                            ELSE IF t[q] = "," THEN ScanMembers(t, q + 1, kv)
                                            ELSE IF t[q] = "}" THEN DecodeOk(JObj(kv), q + 1)
                                            ELSE DecodeFail

\* json.loads: one value, then nothing but whitespace; JSONDecodeError otherwise
JsonLoads(t) ==
    LET r == ScanValue(t, 1)
    IN  IF r.ok /\ SkipWs(t, r.p) > Len(t) THEN [ok |-> TRUE, v |-> r.v]
        ELSE [ok |-> FALSE, v |-> JNull]

(***************************************************************************)
(* Python operations on the decoded values                                 *)
(***************************************************************************)
Raised(e) == [exc |-> e, v |-> JNull]
Value(v) == [exc |-> "none", v |-> v]

\* the values a dict holds under key (the last one wins)
KeyPositions(d, key) == {i \in 1..(Len(d.a) \div 2) : d.a[2 * i - 1].s = key}
HasKey(d, key) == d.t = "dict" /\ KeyPositions(d, key) # {}

\* item[key] with key a str
Subscript(item, key) ==
    IF item.t = "dict" THEN
        IF KeyPositions(item, key) = {} THEN Raised("KeyError")
        ELSE Value(item.a[2 * Max(KeyPositions(item, key))])
    ELSE Raised("TypeError")

\* the distinct keys of a dict, in insertion order
DictKeys(d) ==
    LET firsts == {i \in 1..(Len(d.a) \div 2) :
                      \A j \in 1..(i - 1) : d.a[2 * j - 1].s # d.a[2 * i - 1].s}
        RECURSIVE Ordered(_)
        Ordered(S) == IF S = {} THEN <<>>
                      ELSE <<d.a[2 * Min(S) - 1]>> \o Ordered(S \ {Min(S)})
    IN  Ordered(firsts)

\* iter(v): what `for item in v` walks, or TypeError
Iterate(v) ==
    IF v.t = "list" THEN [exc |-> "none", seq |-> v.a]
    ELSE IF v.t = "dict" THEN [exc |-> "none", seq |-> DictKeys(v)]
    ELSE IF v.t = "str" THEN [exc |-> "none", seq |-> [i \in 1..Len(v.s) |-> JStr(<<v.s[i]>>)]]
    ELSE [exc |-> "TypeError", seq |-> <<>>]

\* int(v)
PyInt(v) ==
    IF v.t \in {"int", "bool"} THEN Value(JInt(v.n))
    ELSE IF v.t = "float" THEN
        IF v = JInf THEN Raised("OverflowError")
        ELSE IF v = JNaN THEN Raised("ValueError")
        ELSE Value(JInt(v.n))
    ELSE IF v.t = "str" THEN
        LET s == Strip(v.s)
        IN  IF Len(s) = 1 /\ s[1] \in DOMAIN IntLiteral THEN Value(JInt(IntLiteral[s[1]]))
            ELSE Raised("ValueError")
    ELSE Raised("TypeError")

(***************************************************************************)
(* llm/base.py: Severity, ReviewIssue, ReviewResult                        *)
(***************************************************************************)
\* class Severity(Enum): the four values, in declaration order
SeverityValues == <<"critical", "error", "warning", "info">>

SeverityCaseInsensitive(v) ==
    IF v.t = "str" /\ Len(v.s) = 1
       /\ v.s[1] \in {"critical", "error", "warning", "info", "Critical", "Error", "Warning", "Info"}
    THEN [exc |-> "none", sev |-> CASE v.s[1] \in {"critical", "Critical"} -> "critical"
                                    [] v.s[1] \in {"error", "Error"} -> "error"
                                    [] v.s[1] \in {"warning", "Warning"} -> "warning"
                                    [] OTHER -> "info"]
    ELSE [exc |-> "ValueError", sev |-> "none"]

\* Severity(v): the member whose value is v; ValueError for any other value
Severity(v) ==
    IF v.t = "str" /\ Len(v.s) = 1 /\ \E k \in 1..Len(SeverityValues) : v.s[1] = SeverityValues[k]
    THEN [exc |-> "none", sev |-> v.s[1]]
    ELSE [exc |-> "ValueError", sev |-> "none"]

BlocksOnWarning(sev) == sev \in {"critical", "error", "warning"}

\* Severity.blocks
Blocks(sev) == sev \in {"critical", "error"}

\* ReviewIssue(severity=..., file=..., line=..., message=...)
ReviewIssue(sev, file, line, message) ==
    [severity |-> sev, file |-> file, line |-> line, message |-> message]

NoIssue == ReviewIssue("none", JNull, 0, JNull)
IssueRaised(e) == [exc |-> e, issue |-> NoIssue]

\* the arguments of ReviewIssue(...) are evaluated left to right; the first
\* exception leaves the expression
BuildIssue(item) ==
    LET sevItem == Subscript(item, <<"severity">>)
        sev == Severity(sevItem.v)
        file == Subscript(item, <<"file">>)
        lineItem == Subscript(item, <<"line">>)
        line == PyInt(lineItem.v)
        message == Subscript(item, <<"message">>)
    IN  IF sevItem.exc # "none" THEN IssueRaised(sevItem.exc)
        ELSE IF sev.exc # "none" THEN IssueRaised(sev.exc)
        ELSE IF file.exc # "none" THEN IssueRaised(file.exc)
        ELSE IF lineItem.exc # "none" THEN IssueRaised(lineItem.exc)
        ELSE IF line.exc # "none" THEN IssueRaised(line.exc)
        ELSE IF message.exc # "none" THEN IssueRaised(message.exc)
        ELSE [exc |-> "none", issue |-> ReviewIssue(sev.sev, file.v, line.v.n, message.v)]

(***************************************************************************)
(* llm/base.py: LLMProvider._parse_review                                  *)
(***************************************************************************)
\* except (json.JSONDecodeError, IndexError)
CaughtDecoding == {"JSONDecodeError", "IndexError"}

\* except (KeyError, ValueError)
CaughtPerItem == {"KeyError", "ValueError"}

StripFenceKeepFirstLine(t) ==
    IF StartsWith(t, Fence)
    THEN [exc |-> "none", text |-> RSplit1(SubSeq(t, Len(Fence) + 1, Len(t)), Fence)[1]]
    ELSE [exc |-> "none", text |-> t]

\* if text.startswith("```"): text = text.split("\n", 1)[1]; text = text.rsplit("```", 1)[0]
StripFence(t) ==
    IF StartsWith(t, Fence) THEN
        LET parts == Split1(t, <<Newline>>)
        IN  IF Len(parts) < 2 THEN [exc |-> "IndexError", text |-> t]
            ELSE [exc |-> "none", text |-> RSplit1(parts[2], Fence)[1]]
    ELSE [exc |-> "none", text |-> t]

\* the loop over the items, from position i with acc collected so far
RECURSIVE CollectIssues(_, _, _)
CollectIssues(seq, i, acc) ==
    IF i > Len(seq) THEN [exc |-> "none", issues |-> acc]
    ELSE LET b == BuildIssue(seq[i])
         IN  IF b.exc = "none" THEN CollectIssues(seq, i + 1, Append(acc, b.issue))
             ELSE IF b.exc \in CaughtPerItem THEN CollectIssues(seq, i + 1, acc)
             ELSE [exc |-> b.exc, issues |-> acc]

\* _parse_review as a function of the reply: the exception that leaves it
\* ("none" when it returns) and the issues of the ReviewResult
ParseReview(c) ==
    LET f == StripFence(Strip(c))
        j == JsonLoads(f.text)
        it == Iterate(j.v)
    IN  IF f.exc # "none" THEN
            IF f.exc \in CaughtDecoding THEN [exc |-> "none", issues |-> <<>>]
            ELSE [exc |-> f.exc, issues |-> <<>>]
        ELSE IF ~j.ok THEN
            IF "JSONDecodeError" \in CaughtDecoding THEN [exc |-> "none", issues |-> <<>>]
            ELSE [exc |-> "JSONDecodeError", issues |-> <<>>]
        ELSE IF it.exc # "none" THEN [exc |-> it.exc, issues |-> <<>>]
        ELSE CollectIssues(it.seq, 1, <<>>)

(***************************************************************************)
(* The replies that are enumerated: JSON text written out chunk by chunk   *)
(***************************************************************************)
Quoted(s) == <<Quote>> \o s \o <<Quote>>
Member(k, v) == Quoted(<<k>>) \o <<":">> \o v

RECURSIVE Joined(_, _)
Joined(parts, sep) ==
    IF parts = <<>> THEN <<>>
    ELSE IF Len(parts) = 1 THEN parts[1]
    ELSE parts[1] \o sep \o Joined(Tail(parts), sep)

ObjectText(members) == <<"{">> \o Joined(members, <<",">>) \o <<"}">>
ArrayText(elems) == <<"[">> \o Joined(elems, <<",", Space>>) \o <<"]">>

IssueText(sev, file, line, msg) ==
    ObjectText(<<Member("severity", sev), Member("file", Quoted(<<file>>)),
                 Member("line", line), Member("message", Quoted(msg))>>)

\* the array elements that are enumerated
ElementTexts ==
    { \* valid issues: an integer line, a line given as a string (and a message
      \* that holds a fence), a fractional line
      IssueText(Quoted(<<"warning">>), "a.c", <<"1">>, <<"ok">>),
      IssueText(Quoted(<<"critical">>), "b.c", Quoted(<<"7">>),
                <<"use", Space, Backtick, Backtick, Backtick>>),
      IssueText(Quoted(<<"error">>), "c.c", <<"1.9">>, <<"leak">>),
      \* unknown severities
      IssueText(Quoted(<<"fatal">>), "a.c", <<"1">>, <<"bad", Space, "severity">>),
      IssueText(Quoted(<<"Critical">>), "a.c", <<"5">>, <<"case">>),
      \* missing file, line and message
      ObjectText(<<Member("severity", Quoted(<<"warning">>))>>),
      \* a line that is no number
      IssueText(Quoted(<<"info">>), "a.c", Quoted(<<"x">>), <<"note">>),
      \* a line that is zero
      IssueText(Quoted(<<"error">>), "a.c", <<"0">>, <<"whole", Space, "file">>),
      \* a null line, an infinite line
      IssueText(Quoted(<<"info">>), "a.c", <<"null">>, <<"note">>),
      IssueText(Quoted(<<"warning">>), "a.c", <<"Infinity">>, <<"far">>),
      \* an element that is no object
      <<"1">> }

RECURSIVE SeqsUpTo(_, _)
SeqsUpTo(S, n) ==
    IF n = 0 THEN {<<>>}
    ELSE LET shorter == SeqsUpTo(S, n - 1)
         IN  shorter \cup {Append(s, e) : s \in {x \in shorter : Len(x) = n - 1}, e \in S}

ArrayTexts == {ArrayText(es) : es \in SeqsUpTo(ElementTexts, MaxItems)}

\* replies that are no JSON array
OtherTexts ==
    { <<>>,                                                \* empty
      <<"5">>, <<"null">>, <<"true">>,                     \* number, null, boolean
      <<"{", "}">>,                                        \* empty object
      ObjectText(<<Member("a", <<"1">>)>>),                \* object
      Quoted(<<"abc">>), Quoted(<<>>),                     \* strings
      <<"{", "not", Space, "valid", Space, "json", "}">>,  \* no JSON
      <<"[">> \o IssueText(Quoted(<<"warning">>), "a.c", <<"1">>, <<"ok">>),          \* cut short
      <<"[">> \o IssueText(Quoted(<<"warning">>), "a.c", <<"1">>, <<"ok">>) \o <<",", "]">>,
      <<"[", "]", Space, "x">>,                            \* extra data
      <<FormFeed, "[">> \o IssueText(Quoted(<<"warning">>), "a.c", <<"1">>, <<"ok">>) \o <<"]">> }

\* A in a code fence with a language tag (tag = <<"json">>) or without (tag = <<>>)
Fenced(tag, A) == Fence \o tag \o <<Newline>> \o A \o <<Newline>> \o Fence

Wrappings(A) ==
    { A,
      Fenced(<<"json">>, A),
      Fenced(<<>>, A),
      <<Space, Newline>> \o A \o <<Newline, Space>>,       \* padded
      <<Newline>> \o Fenced(<<"json">>, A) \o <<Space, "done">>,  \* text after the fence
      Fence \o <<"json", Space>> \o A \o <<Space>> \o Fence,       \* fenced on one line
      Fence \o <<"json", Newline>> \o A }                  \* fence never closed

Contents == UNION {Wrappings(A) : A \in ArrayTexts \cup OtherTexts}

(***************************************************************************)
(* _parse_review, step by step                                             *)
(***************************************************************************)
ResultIdle ==
    /\ rissues = <<>> /\ rpos = 0 /\ blocked = FALSE
    /\ counts = <<>> /\ rpc = "idle"

PushIdle ==
    /\ local_sha = <<>> /\ remote_sha = <<>> /\ extensions = <<>>
    /\ cand = 0 /\ merge_base = <<>> /\ gitlog = <<>>
    /\ result = <<>> /\ gexc = "none" /\ gpc = "idle"

ChatIdle ==
    /\ provider = "none" /\ method = "none" /\ attempts = 0
    /\ wire = [kind |-> "none", status |-> 0, json |-> FALSE, body |-> JNull]
    /\ reply = JNull /\ ret = [t |-> "none", b |-> FALSE, s |-> <<>>, issues |-> <<>>]
    /\ cexc = "none" /\ cpc = "idle"

CliIdle ==
    /\ command = "none" /\ graceful = FALSE /\ output_format = "terminal"
    /\ config = [provider |-> "", token |-> FALSE, base_url |-> FALSE, max_diff_lines |-> <<>>]
    /\ commit_msg = <<>> /\ file_text = <<"none">> /\ diff = <<>>
    /\ returned = [t |-> "none", b |-> FALSE, s |-> <<>>, issues |-> <<>>]
    /\ output = <<>> /\ exit_code = 0 /\ kpc = "idle"
    /\ custom_rules = [t |-> "NoneType", n |-> 0, s |-> <<>>, a |-> <<>>] /\ calls = <<>>

ConfigIdle ==
    /\ config_file = <<>> /\ initial_file = <<>>
    /\ set_args = <<>> /\ data = <<>> /\ spc = <<>>

AppIdle == ChatIdle /\ CliIdle /\ ConfigIdle

ParseIdle ==
    /\ content = <<>> /\ text = <<>> /\ items = JNull /\ iter = <<>>
    /\ idx = 0 /\ issues = <<>> /\ pc = "idle" /\ exc = "none"

InitParse ==
    /\ content \in Contents
    /\ text = <<>> /\ items = JNull /\ iter = <<>>
    /\ idx = 0 /\ issues = <<>> /\ pc = "strip" /\ exc = "none"
    /\ ResultIdle /\ PushIdle /\ AppIdle

\* leaving _parse_review through the first except clause, or with the exception
LeaveDecoding(e) ==
    IF e \in CaughtDecoding
    THEN pc' = "done" /\ exc' = "none"      \* return ReviewResult()
    ELSE pc' = "raised" /\ exc' = e

\* text = content.strip()
PR_Strip ==
    /\ pc = "strip"
    /\ text' = Strip(content)
    /\ pc' = "fence"
    /\ UNCHANGED <<content, items, iter, idx, issues, exc>>
    /\ UNCHANGED resultVars /\ UNCHANGED pushVars /\ UNCHANGED appVars

\* if text.startswith("```"): ...
PR_Fence ==
    /\ pc = "fence"
    /\ LET f == StripFence(text)
       IN  IF f.exc = "none"
           THEN text' = f.text /\ pc' = "loads" /\ exc' = exc
           ELSE text' = text /\ LeaveDecoding(f.exc)
    /\ UNCHANGED <<content, items, iter, idx, issues>>
    /\ UNCHANGED resultVars /\ UNCHANGED pushVars /\ UNCHANGED appVars

\* items = json.loads(text)
PR_Loads ==
    /\ pc = "loads"
    /\ LET j == JsonLoads(text)
       IN  IF j.ok
           THEN items' = j.v /\ pc' = "iter" /\ exc' = exc
           ELSE items' = items /\ LeaveDecoding("JSONDecodeError")
    /\ UNCHANGED <<content, text, iter, idx, issues>>
    /\ UNCHANGED resultVars /\ UNCHANGED pushVars /\ UNCHANGED appVars

\* issues = []; for item in items: (the iterator is taken once)
PR_Iter ==
    /\ pc = "iter"
    /\ LET it == Iterate(items)
       IN  IF it.exc = "none"
           THEN iter' = it.seq /\ idx' = 1 /\ pc' = "item" /\ exc' = exc
           ELSE iter' = iter /\ idx' = idx /\ pc' = "raised" /\ exc' = it.exc
    /\ issues' = <<>>
    /\ UNCHANGED <<content, text, items>>
    /\ UNCHANGED resultVars /\ UNCHANGED pushVars /\ UNCHANGED appVars

\* one turn of the loop: try: issues.append(ReviewIssue(...)) except (KeyError, ValueError)
PR_Item ==
    /\ pc = "item" /\ idx <= Len(iter)
    /\ LET b == BuildIssue(iter[idx])
       IN  IF b.exc = "none"
           THEN issues' = Append(issues, b.issue) /\ idx' = idx + 1 /\ pc' = pc /\ exc' = exc
           ELSE IF b.exc \in CaughtPerItem
           THEN issues' = issues /\ idx' = idx + 1 /\ pc' = pc /\ exc' = exc
           ELSE issues' = issues /\ idx' = idx /\ pc' = "raised" /\ exc' = b.exc
    /\ UNCHANGED <<content, text, items, iter>>
    /\ UNCHANGED resultVars /\ UNCHANGED pushVars /\ UNCHANGED appVars

\* return ReviewResult(issues=issues)
PR_Return ==
    /\ pc = "item" /\ idx > Len(iter)
    /\ pc' = "done"
    /\ UNCHANGED <<content, text, items, iter, idx, issues, exc>>
    /\ UNCHANGED resultVars /\ UNCHANGED pushVars /\ UNCHANGED appVars

NextParse == PR_Strip \/ PR_Fence \/ PR_Loads \/ PR_Iter \/ PR_Item \/ PR_Return

SpecParse == InitParse /\ [][NextParse]_vars

(***************************************************************************)
(* Claims about _parse_review                                              *)
(***************************************************************************)
ParseTerminal == pc \in {"done", "raised"}

\* what json.loads is given: the reply trimmed and with its fence stripped
Decoded ==
    LET f == StripFence(Strip(content))
    IN  IF f.exc # "none" THEN [ok |-> FALSE, v |-> JNull] ELSE JsonLoads(f.text)

ReplyIsArray == Decoded.ok /\ Decoded.v.t = "list"

KnownSeverity(v) ==
    v.t = "str" /\ v.s \in {<<"critical">>, <<"error">>, <<"warning">>, <<"info">>}

\* a valid element: an object with a known severity, a file, a line that
\* int() accepts and a message
ValidElement(e) ==
    /\ e.t = "dict"
    /\ HasKey(e, <<"severity">>) /\ KnownSeverity(Subscript(e, <<"severity">>).v)
    /\ HasKey(e, <<"file">>)
    /\ HasKey(e, <<"line">>) /\ PyInt(Subscript(e, <<"line">>).v).exc = "none"
    /\ HasKey(e, <<"message">>)

\* the issue a valid element stands for
IssueOf(e) ==
    ReviewIssue(Subscript(e, <<"severity">>).v.s[1], Subscript(e, <<"file">>).v,
                PyInt(Subscript(e, <<"line">>).v).v.n, Subscript(e, <<"message">>).v)

RECURSIVE ValidIssues(_)
ValidIssues(elems) ==
    IF elems = <<>> THEN <<>>
    ELSE IF ValidElement(Head(elems)) THEN <<IssueOf(Head(elems))>> \o ValidIssues(Tail(elems))
    ELSE ValidIssues(Tail(elems))

\* C1: for every reply text the parser returns a ReviewResult and never
\* raises an exception to its caller.
C1_ParserNeverRaises == pc # "raised"

\* C2: for every reply that is a JSON array the parser returns exactly one
\* issue per valid element, in array order and with matching field values;
\* every invalid element is dropped on its own.
C2_OneIssuePerValidElement ==
    (ParseTerminal /\ ReplyIsArray) =>
        (pc = "done" /\ issues = ValidIssues(Decoded.v.a))

\* C3: a reply that cannot be parsed as a JSON array (invalid JSON, JSON that
\* is no array, empty text) gives a result with zero issues and no exception.
C3_NotAnArrayYieldsNoIssues ==
    (ParseTerminal /\ ~ReplyIsArray) => (pc = "done" /\ issues = <<>>)

FenceTags == {<<"json">>, <<>>}

\* content is A in a fence with this tag, A a JSON array text
InFence(tag) ==
    LET open == Fence \o tag \o <<Newline>>
        close == <<Newline>> \o Fence
    IN  /\ Len(content) >= Len(open) + Len(close)
        /\ SubSeq(content, 1, Len(open)) = open
        /\ SubSeq(content, Len(content) - Len(close) + 1, Len(content)) = close

FenceBody(tag) ==
    SubSeq(content, Len(Fence) + Len(tag) + 2, Len(content) - Len(Fence) - 1)

IsArrayText(A) == JsonLoads(A).ok /\ JsonLoads(A).v.t = "list"

\* C4: for every JSON array text A, parsing A in a fence with a language tag
\* and parsing A in a fence without one both end as parsing A unfenced does:
\* with the same issues (or leaving with the same exception).
C4_FencedParsesLikeUnfenced ==
    \A tag \in FenceTags :
        (ParseTerminal /\ InFence(tag) /\ IsArrayText(FenceBody(tag))) =>
            [exc |-> exc, issues |-> issues] = ParseReview(FenceBody(tag))

C4_Witness ==
    /\ pc = "done" /\ InFence(<<"json">>) /\ IsArrayText(FenceBody(<<"json">>))
    /\ Len(issues) = 2

\* an object whose severity is not one of the four values
UnknownSeverityItem(item) ==
    /\ item.t = "dict" /\ HasKey(item, <<"severity">>)
    /\ ~KnownSeverity(Subscript(item, <<"severity">>).v)

\* C5: an array element whose severity is not exactly critical, error,
\* warning or info is skipped on its own: the turn of the loop that meets it
\* raises nothing, adds no issue and goes on to the next element.
C5_UnknownSeveritySkipped ==
    [][(pc = "item" /\ idx <= Len(iter) /\ UnknownSeverityItem(iter[idx])) =>
           (pc' = "item" /\ exc' = "none" /\ issues' = issues
            /\ idx' = idx + 1 /\ iter' = iter)]_vars

\* an unknown severity ("Critical") before a valid element: that one is returned
C5_Witness ==
    /\ pc = "done" /\ Len(iter) = 2 /\ Len(issues) = 1
    /\ UnknownSeverityItem(iter[1])
    /\ Subscript(iter[1], <<"severity">>).v.s = <<"Critical">>

(***************************************************************************)
(* llm/base.py: ReviewResult.is_blocked and ReviewResult.summary           *)
(***************************************************************************)
SeveritySet == {SeverityValues[k] : k \in 1..Len(SeverityValues)}

\* the ReviewResults that are enumerated: every sequence of issues, one
\* issue per severity, up to MaxIssues long
SampleIssues ==
    {ReviewIssue(s, JStr(<<"a.c">>), 1, JStr(<<"m">>)) : s \in SeveritySet}

InitResult ==
    /\ rissues \in SeqsUpTo(SampleIssues, MaxIssues)
    /\ rpos = 1 /\ blocked = FALSE /\ counts = <<>> /\ rpc = "any"
    /\ ParseIdle /\ PushIdle /\ AppIdle

\* any(issue.severity.blocks for issue in self.issues): a blocking issue ends it
IB_Next ==
    /\ rpc = "any" /\ rpos <= Len(rissues)
    /\ IF Blocks(rissues[rpos].severity)
       THEN blocked' = TRUE /\ rpc' = "summary" /\ rpos' = rpos
       ELSE blocked' = blocked /\ rpc' = rpc /\ rpos' = rpos + 1
    /\ UNCHANGED <<rissues, counts>>
    /\ UNCHANGED parseVars /\ UNCHANGED pushVars /\ UNCHANGED appVars

\* any(...) of a generator that is used up
IB_Exhausted ==
    /\ rpc = "any" /\ rpos > Len(rissues)
    /\ blocked' = FALSE /\ rpc' = "summary"
    /\ UNCHANGED <<rissues, rpos, counts>>
    /\ UNCHANGED parseVars /\ UNCHANGED pushVars /\ UNCHANGED appVars

\* {s.value: 0 for s in Severity}
ZeroCounts == [s \in SeveritySet |-> 0]

CountedOnce(c, issue) == [c EXCEPT ![issue.severity] = 1]

\* counts[issue.severity.value] += 1
Counted(c, issue) == [c EXCEPT ![issue.severity] = @ + 1]

\* counts = {s.value: 0 for s in Severity}
SM_Start ==
    /\ rpc = "summary"
    /\ counts' = ZeroCounts /\ rpos' = 1 /\ rpc' = "count"
    /\ UNCHANGED <<rissues, blocked>>
    /\ UNCHANGED parseVars /\ UNCHANGED pushVars /\ UNCHANGED appVars

\* for issue in self.issues: counts[issue.severity.value] += 1
SM_Count ==
    /\ rpc = "count" /\ rpos <= Len(rissues)
    /\ counts' = Counted(counts, rissues[rpos]) /\ rpos' = rpos + 1
    /\ UNCHANGED <<rissues, blocked, rpc>>
    /\ UNCHANGED parseVars /\ UNCHANGED pushVars /\ UNCHANGED appVars

\* return counts
SM_Return ==
    /\ rpc = "count" /\ rpos > Len(rissues)
    /\ rpc' = "done"
    /\ UNCHANGED <<rissues, rpos, blocked, counts>>
    /\ UNCHANGED parseVars /\ UNCHANGED pushVars /\ UNCHANGED appVars

NextResult == IB_Next \/ IB_Exhausted \/ SM_Start \/ SM_Count \/ SM_Return

SpecResult == InitResult /\ [][NextResult]_vars

\* C6: is_blocked is true if and only if at least one issue has severity
\* critical or error (false for a result with no issues).
C6_BlockedIffCriticalOrError ==
    (rpc \in {"summary", "count", "done"}) =>
        (blocked <=> \E i \in 1..Len(rissues) : rissues[i].severity \in {"critical", "error"})

\* warning and info issues alone do not block; one error among them does
C6_Witness ==
    /\ rpc = "done" /\ blocked /\ Len(rissues) = 3
    /\ rissues[1].severity = "warning" /\ rissues[2].severity = "info"
    /\ rissues[3].severity = "error"

RECURSIVE SumOver(_, _)
SumOver(f, S) ==
    IF S = {} THEN 0
    ELSE LET s == CHOOSE x \in S : TRUE IN f[s] + SumOver(f, S \ {s})

\* C7: summary has exactly the keys critical, error, warning, info; each
\* count is the number of issues of that severity, so it is never negative
\* and the counts sum to the number of issues.
C7_SummaryCounts ==
    rpc = "done" =>
        /\ DOMAIN counts = {"critical", "error", "warning", "info"}
        /\ \A s \in DOMAIN counts :
              /\ counts[s] = Cardinality({i \in 1..Len(rissues) : rissues[i].severity = s})
              /\ counts[s] >= 0
        /\ SumOver(counts, DOMAIN counts) = Len(rissues)

\* critical, warning, warning: {critical: 1, error: 0, warning: 2, info: 0}
C7_Witness ==
    /\ rpc = "done" /\ Len(rissues) = 3
    /\ rissues[1].severity = "critical" /\ rissues[2].severity = "warning"
    /\ rissues[3].severity = "warning"
    /\ counts["critical"] = 1 /\ counts["error"] = 0
    /\ counts["warning"] = 2 /\ counts["info"] = 0

(***************************************************************************)
(* git.py: _run_git, get_commit_diff, get_push_diff                        *)
(***************************************************************************)
ShaLen == 40

\* _ZERO_SHA = "0" * 40
ZeroSha == [i \in 1..ShaLen |-> "0"]

\* for base_ref in ["origin/main", "origin/master", "main", "master"]
BaseRefs == <<"origin/main", "origin/master", "main", "master">>

\* str.lstrip('.')
LStripDots(t) ==
    LET keep == {i \in 1..Len(t) : t[i] # "."}
    IN  IF keep = {} THEN <<>> ELSE SubSeq(t, Min(keep), Len(t))

\* f"*.{ext.lstrip('.')}" for ext in extensions
PathSpecs(exts) == [i \in 1..Len(exts) |-> <<"*", ".">> \o LStripDots(exts[i])]

\* arguments of the diff with the range the wrong way round
CommitDiffArgsReversed(from_ref, to_ref, exts) ==
    <<<<"diff">>, to_ref, from_ref>>
    \o (IF exts # <<>> THEN <<<<"--">>>> \o PathSpecs(exts) ELSE <<>>)

\* get_commit_diff: the arguments handed to _run_git
CommitDiffArgs(from_ref, to_ref, exts) ==
    <<<<"diff">>, from_ref, to_ref>>
    \o (IF exts # <<>> THEN <<<<"--">>>> \o PathSpecs(exts) ELSE <<>>)

MergeBaseArgs(sha, base_ref) == <<<<"merge-base">>, sha, <<base_ref>>>>

\* what git can answer.  subprocess.run: exit status 0 with the output, a
\* non-zero exit status (CalledProcessError, with stderr), or no git
\* executable (FileNotFoundError), which then holds for every call.
GitStdout(args) ==
    IF args[1] = <<"merge-base">>
    THEN {<<"c1", Newline>>, <<"c2", Newline>>}
    ELSE {<<>>, <<"+int", Space, "feat", Newline>>, <<Newline, "-x", Newline, "+y", Newline>>}

GitOutcomes(args, log) ==
    IF log # <<>> /\ log[1].kind = "FileNotFoundError"
    THEN {[kind |-> "FileNotFoundError", out |-> <<>>, err |-> <<>>]}
    ELSE {[kind |-> "ok", out |-> o, err |-> <<>>] : o \in GitStdout(args)}
         \cup {[kind |-> "CalledProcessError", out |-> <<>>,
                err |-> <<"fatal:", Space, "bad", Space, "revision", Newline>>]}
         \cup (IF log = <<>>
               THEN {[kind |-> "FileNotFoundError", out |-> <<>>, err |-> <<>>]}
               ELSE {})

\* _run_git: the output, or GitError for either failure
RunGit(o) ==
    IF o.kind = "ok" THEN [exc |-> "none", out |-> o.out]
    ELSE [exc |-> "GitError", out |-> <<>>]

LogEntry(args, o) == [args |-> args, kind |-> o.kind, out |-> o.out, err |-> o.err]

BranchOfRemoteFirst(local, remote) ==
    IF remote = ZeroSha THEN "new_branch"
    ELSE IF local = ZeroSha THEN "deleted"
    ELSE "direct"

\* the order of the two tests in get_push_diff
BranchOf(local, remote) ==
    IF local = ZeroSha THEN "deleted"
    ELSE IF remote = ZeroSha THEN "new_branch"
    ELSE "direct"

CaughtNothing == {}

\* except GitError: continue
CaughtInBaseLoop == {"GitError"}

Shas == {ZeroSha, <<"abc123">>, <<"def456">>}
ExtensionLists == {<<>>, <<<<"c">>>>, <<<<".", "py">>, <<"c">>>>}

InitPush ==
    /\ local_sha \in Shas /\ remote_sha \in Shas /\ extensions \in ExtensionLists
    /\ cand = 0 /\ merge_base = <<>> /\ gitlog = <<>>
    /\ result = <<>> /\ gexc = "none" /\ gpc = "start"
    /\ ParseIdle /\ ResultIdle /\ AppIdle

\* if local_sha == _ZERO_SHA: return ""
GP_Deleted ==
    /\ gpc = "start" /\ BranchOf(local_sha, remote_sha) = "deleted"
    /\ result' = <<>> /\ gpc' = "done"
    /\ UNCHANGED <<local_sha, remote_sha, extensions, cand, merge_base, gitlog, gexc>>
    /\ UNCHANGED parseVars /\ UNCHANGED resultVars /\ UNCHANGED appVars

\* if remote_sha == _ZERO_SHA: enter the loop over the candidates
GP_NewBranch ==
    /\ gpc = "start" /\ BranchOf(local_sha, remote_sha) = "new_branch"
    /\ cand' = 1 /\ gpc' = "merge_base"
    /\ UNCHANGED <<local_sha, remote_sha, extensions, merge_base, gitlog, result, gexc>>
    /\ UNCHANGED parseVars /\ UNCHANGED resultVars /\ UNCHANGED appVars

\* leaving the try block of the loop with exception e
LeaveTry(e) ==
    IF e \in CaughtInBaseLoop
    THEN cand' = cand + 1 /\ gpc' = "merge_base" /\ gexc' = gexc    \* continue
    ELSE cand' = cand /\ gpc' = "raised" /\ gexc' = e

\* merge_base = _run_git("merge-base", local_sha, base_ref).strip()
GP_MergeBase ==
    /\ gpc = "merge_base" /\ cand <= Len(BaseRefs)
    /\ LET args == MergeBaseArgs(local_sha, BaseRefs[cand])
       IN  \E o \in GitOutcomes(args, gitlog) :
              /\ gitlog' = Append(gitlog, LogEntry(args, o))
              /\ IF RunGit(o).exc = "none"
                 THEN /\ merge_base' = Strip(RunGit(o).out)
                      /\ gpc' = "base_diff" /\ cand' = cand /\ gexc' = gexc
                 ELSE merge_base' = merge_base /\ LeaveTry(RunGit(o).exc)
    /\ UNCHANGED <<local_sha, remote_sha, extensions, result>>
    /\ UNCHANGED parseVars /\ UNCHANGED resultVars /\ UNCHANGED appVars

\* return get_commit_diff(merge_base, local_sha, extensions), inside the try
GP_BaseDiff ==
    /\ gpc = "base_diff"
    /\ LET args == CommitDiffArgs(merge_base, local_sha, extensions)
       IN  \E o \in GitOutcomes(args, gitlog) :
              /\ gitlog' = Append(gitlog, LogEntry(args, o))
              /\ IF RunGit(o).exc = "none"
                 THEN /\ result' = Strip(RunGit(o).out)
                      /\ gpc' = "done" /\ cand' = cand /\ gexc' = gexc
                 ELSE result' = result /\ LeaveTry(RunGit(o).exc)
    /\ UNCHANGED <<local_sha, remote_sha, extensions, merge_base>>
    /\ UNCHANGED parseVars /\ UNCHANGED resultVars /\ UNCHANGED appVars

\* the loop is used up: return ""
GP_NoBase ==
    /\ gpc = "merge_base" /\ cand > Len(BaseRefs)
    /\ result' = <<>> /\ gpc' = "done"
    /\ UNCHANGED <<local_sha, remote_sha, extensions, cand, merge_base, gitlog, gexc>>
    /\ UNCHANGED parseVars /\ UNCHANGED resultVars /\ UNCHANGED appVars

\* return get_commit_diff(remote_sha, local_sha, extensions)
GP_Direct ==
    /\ gpc = "start" /\ BranchOf(local_sha, remote_sha) = "direct"
    /\ LET args == CommitDiffArgs(remote_sha, local_sha, extensions)
       IN  \E o \in GitOutcomes(args, gitlog) :
              /\ gitlog' = Append(gitlog, LogEntry(args, o))
              /\ IF RunGit(o).exc = "none"
                 THEN result' = Strip(RunGit(o).out) /\ gpc' = "done" /\ gexc' = gexc
                 ELSE result' = result /\ gpc' = "raised" /\ gexc' = RunGit(o).exc
    /\ UNCHANGED <<local_sha, remote_sha, extensions, cand, merge_base>>
    /\ UNCHANGED parseVars /\ UNCHANGED resultVars /\ UNCHANGED appVars

NextPush ==
    GP_Deleted \/ GP_NewBranch \/ GP_MergeBase \/ GP_BaseDiff \/ GP_NoBase \/ GP_Direct

SpecPush == InitPush /\ [][NextPush]_vars

(***************************************************************************)
(* Claims about get_push_diff                                              *)
(***************************************************************************)
PushTerminal == gpc \in {"done", "raised"}
NewBranchCase == remote_sha = ZeroSha /\ local_sha # ZeroSha

\* the merge-base commands of the log that gave a merge-base
YieldedBase == {i \in 1..Len(gitlog) : gitlog[i].args[1] = <<"merge-base">> /\ gitlog[i].kind = "ok"}

\* C8: with a zero remote SHA and a non-zero local SHA the candidates are
\* tried in the order origin/main, origin/master, main, master; the result is
\* the diff from the merge-base of the first candidate that yields one to the
\* local SHA, and no candidate after that one is consulted.
C8_FirstMergeBaseDecides ==
    (PushTerminal /\ NewBranchCase /\ YieldedBase # {}) =>
        LET k == Min(YieldedBase)
        IN  /\ \A i \in 1..k : gitlog[i].args = MergeBaseArgs(local_sha, BaseRefs[i])
            /\ Len(gitlog) = k + 1
            /\ gitlog[k + 1].args = CommitDiffArgs(Strip(gitlog[k].out), local_sha, extensions)
            /\ gitlog[k + 1].kind = "ok" =>
                  (gpc = "done" /\ result = Strip(gitlog[k + 1].out))

\* C9: with a local SHA equal to the zero SHA get_push_diff returns the empty
\* diff, raises nothing and runs no git command, whatever the remote SHA and
\* the extension list are.
C9_DeletionReturnsEmpty ==
    local_sha = ZeroSha =>
        /\ gitlog = <<>> /\ gexc = "none"
        /\ gpc \in {"idle", "start", "done"}
        /\ gpc = "done" => result = <<>>

C9_Witness ==
    /\ gpc = "done" /\ local_sha = ZeroSha /\ remote_sha = ZeroSha
    /\ extensions # <<>>

\* C10: with a zero remote SHA and a non-zero local SHA, if none of the four
\* candidates yields a merge-base, get_push_diff returns the empty diff and
\* raises no error.
C10_NoBaseReturnsEmpty ==
    (NewBranchCase /\ YieldedBase = {}) =>
        /\ gpc # "raised" /\ gexc = "none"
        /\ gpc = "done" =>
              /\ result = <<>>
              /\ Len(gitlog) = Len(BaseRefs)
              /\ \A i \in 1..Len(BaseRefs) :
                    gitlog[i].args = MergeBaseArgs(local_sha, BaseRefs[i])

C10_Witness ==
    /\ gpc = "done" /\ NewBranchCase /\ YieldedBase = {}
    /\ Len(gitlog) = Len(BaseRefs) /\ result = <<>>
    /\ gitlog[1].kind = "CalledProcessError"

\* ---------------------------------------------------------------------
\* get_push_diff, both SHAs non-zero
\* ---------------------------------------------------------------------

DirectCase == local_sha # ZeroSha /\ remote_sha # ZeroSha

\* C11: with both SHAs non-zero get_push_diff runs one git command, the diff
\* from the remote SHA to the local SHA (with the extension pathspecs), and
\* returns its stripped output; no merge-base is looked up and no candidate
\* branch is consulted.
C11_DirectDiffOnly ==
    DirectCase =>
        /\ cand = 0 /\ merge_base = <<>>
        /\ \A i \in 1..Len(gitlog) : gitlog[i].args[1] = <<"diff">>
        /\ ~PushTerminal => gitlog = <<>>
        /\ PushTerminal =>
              /\ Len(gitlog) = 1
              /\ gitlog[1].args[2] = remote_sha /\ gitlog[1].args[3] = local_sha
              /\ Len(gitlog[1].args) = 3 + (IF extensions = <<>> THEN 0 ELSE 1 + Len(extensions))
              /\ gitlog[1].kind = "ok" => (gpc = "done" /\ result = Strip(gitlog[1].out))

C11_Witness ==
    /\ gpc = "done" /\ DirectCase /\ local_sha # remote_sha
    /\ extensions # <<>> /\ result # <<>>
    /\ Len(gitlog) = 1 /\ result # gitlog[1].out

(***************************************************************************)
(* llm/ollama.py, llm/openai.py, llm/enterprise.py: one provider call      *)
(***************************************************************************)
Providers == {"ollama", "openai", "enterprise"}

\* the providers that hold an httpx.Client (OpenAIProvider holds the SDK's)
HttpxProviders == {"ollama", "enterprise"}

Methods == {"health_check", "review_code", "improve_commit_msg"}
ChatMethods == {"review_code", "improve_commit_msg"}

\* what a request comes back with: no response at all (the connection was
\* refused, the read timed out), or a response with a status and a body that
\* is JSON (json = TRUE, body the decoded value) or is not
SendFailures == {"ConnectError", "ReadTimeout"}
Failure(kind) == [kind |-> kind, status |-> 0, json |-> FALSE, body |-> JNull]
Response(status, body) == [kind |-> "response", status |-> status, json |-> TRUE, body |-> body]
NotJson(status) == [kind |-> "response", status |-> status, json |-> FALSE, body |-> JNull]

Dict1(k, v) == JObj(<<JStr(<<k>>), v>>)

\* the body each backend wraps the reply c in
Envelope(p, c) ==
    IF p = "ollama" THEN Dict1("message", Dict1("content", c))
    ELSE Dict1("choices", JArr(<<Dict1("message", Dict1("content", c))>>))

\* bodies with status 200 that do not hold the reply where _chat looks for it
BrokenEnvelopes(p) ==
    IF p = "ollama"
    THEN {Dict1("error", JStr(<<"boom">>)), Dict1("message", JObj(<<>>)), JArr(<<>>)}
    ELSE IF p = "enterprise"
    THEN {Dict1("error", JStr(<<"boom">>)), Dict1("choices", JArr(<<>>)),
          Dict1("choices", JArr(<<Dict1("message", JObj(<<>>))>>)), JArr(<<>>)}
    ELSE {Dict1("choices", JArr(<<>>))}

\* the replies of the model that are enumerated
ReplyTexts ==
    { ArrayText(<<>>),
      ArrayText(<<IssueText(Quoted(<<"warning">>), "a.c", <<"1">>, <<"ok">>)>>),
      Fenced(<<"json">>, ArrayText(<<IssueText(Quoted(<<"critical">>), "b.c", <<"7">>, <<"leak">>)>>)),
      <<"not", Space, "json">>,
      <<"null">>,
      <<Space, "[BSP-1]", Space, "fix", Space, "leak", Newline>> }

ErrorStatuses == {404, 500}

WireOutcomes(p, m) ==
    {Failure(k) : k \in SendFailures}
    \cup {Response(st, Dict1("error", JStr(<<"boom">>))) : st \in ErrorStatuses}
    \cup (IF m = "health_check"
          THEN {Response(200, Dict1("models", JArr(<<>>)))}
          ELSE {Response(200, Envelope(p, JStr(c))) : c \in ReplyTexts}
               \cup {Response(200, b) : b \in BrokenEnvelopes(p)}
               \cup (IF p \in HttpxProviders THEN {NotJson(200)} ELSE {}))

\* v[0]
First(v) ==
    IF v.t = "list" THEN (IF v.a = <<>> THEN Raised("IndexError") ELSE Value(v.a[1]))
    ELSE IF v.t = "str" THEN (IF v.s = <<>> THEN Raised("IndexError") ELSE Value(JStr(<<v.s[1]>>)))
    ELSE IF v.t = "dict" THEN Raised("KeyError")
    ELSE Raised("TypeError")

\* the subscripts _chat applies to the body, left to right
ReplyPath(p) ==
    IF p = "ollama" THEN <<"message", "content">>
    ELSE <<"choices", "0", "message", "content">>

RECURSIVE Walk(_, _)
Walk(v, path) ==
    IF path = <<>> THEN Value(v)
    ELSE LET step == IF path[1] = "0" THEN First(v) ELSE Subscript(v, <<path[1]>>)
         IN  IF step.exc # "none" THEN step ELSE Walk(step.v, Tail(path))

\* client.post(...) / chat.completions.create(...): the exception of a
\* request that got no response
SendError(p, kind) ==
    IF p \in HttpxProviders THEN
        (IF kind = "ConnectError" THEN "httpx.ConnectError" ELSE "httpx.ReadTimeout")
    ELSE (IF kind = "ConnectError" THEN "openai.APIConnectionError" ELSE "openai.APITimeoutError")

\* resp.raise_for_status() / the SDK's check of the status
StatusError(p, status) ==
    IF status \in 200..299 THEN "none"
    ELSE IF p \in HttpxProviders THEN "httpx.HTTPStatusError"
    ELSE "openai.APIStatusError"

\* _chat: the reply text, or the exception that leaves it
Chat(p, w) ==
    IF w.kind # "response" THEN Raised(SendError(p, w.kind))
    ELSE IF StatusError(p, w.status) # "none" THEN Raised(StatusError(p, w.status))
    ELSE IF ~w.json THEN Raised("JSONDecodeError")
    ELSE Walk(w.body, ReplyPath(p))

\* the values the three methods return
NoReturn == [t |-> "none", b |-> FALSE, s |-> <<>>, issues |-> <<>>]
Bool(b) == [t |-> "bool", b |-> b, s |-> <<>>, issues |-> <<>>]
Str(s) == [t |-> "str", b |-> FALSE, s |-> s, issues |-> <<>>]
ReviewResult(iss) == [t |-> "ReviewResult", b |-> FALSE, s |-> <<>>, issues |-> iss]

Returned(v) == [exc |-> "none", v |-> v]
Left(e) == [exc |-> e, v |-> NoReturn]

\* except httpx.HTTPError (Ollama, Enterprise) / except Exception (OpenAI)
CaughtInHealthCheck(p) ==
    IF p \in HttpxProviders THEN {"httpx.ConnectError", "httpx.ReadTimeout", "httpx.HTTPStatusError"}
    ELSE {"openai.APIConnectionError", "openai.APITimeoutError", "openai.APIStatusError"}

\* health_check: a bool.  Ollama and Enterprise compare the status with 200
\* and raise nothing for another status; models.list() of the SDK raises for
\* an error status.
HealthCheck(p, w) ==
    LET e == IF w.kind # "response" THEN SendError(p, w.kind)
             ELSE IF p \in HttpxProviders THEN "none"
             ELSE StatusError(p, w.status)
    IN  IF e # "none" THEN (IF e \in CaughtInHealthCheck(p) THEN Returned(Bool(FALSE)) ELSE Left(e))
        ELSE IF p \in HttpxProviders THEN Returned(Bool(w.status = 200))
        ELSE Returned(Bool(TRUE))

\* review_code after _chat: self._parse_review(content)
ReviewCode(c) ==
    IF c.t # "str" THEN Left("AttributeError")
    ELSE LET r == ParseReview(c.s)
         IN  IF r.exc # "none" THEN Left(r.exc) ELSE Returned(ReviewResult(r.issues))

\* improve_commit_msg after _chat: content.strip()
ImproveCommitMsg(c) ==
    IF c.t # "str" THEN Left("AttributeError") ELSE Returned(Str(Strip(c.s)))

InitChat ==
    /\ provider \in Providers /\ method \in Methods
    /\ wire = [kind |-> "none", status |-> 0, json |-> FALSE, body |-> JNull]
    /\ attempts = 0 /\ reply = JNull /\ ret = NoReturn
    /\ cexc = "none" /\ cpc = "call"
    /\ ParseIdle /\ ResultIdle /\ PushIdle /\ CliIdle /\ ConfigIdle

\* the request is sent, once: neither client is given a retrying transport
CH_Send ==
    /\ cpc = "call"
    /\ \E w \in WireOutcomes(provider, method) : wire' = w
    /\ attempts' = attempts + 1
    /\ cpc' = "sent"
    /\ UNCHANGED <<provider, method, reply, ret, cexc>>
    /\ UNCHANGED coreVars /\ UNCHANGED cliVars /\ UNCHANGED configVars

Leave(r) ==
    IF r.exc = "none" THEN ret' = r.v /\ cexc' = cexc /\ cpc' = "done"
    ELSE ret' = ret /\ cexc' = r.exc /\ cpc' = "raised"

CH_HealthCheck ==
    /\ cpc = "sent" /\ method = "health_check"
    /\ Leave(HealthCheck(provider, wire))
    /\ UNCHANGED <<provider, method, wire, attempts, reply>>
    /\ UNCHANGED coreVars /\ UNCHANGED cliVars /\ UNCHANGED configVars

CH_Chat ==
    /\ cpc = "sent" /\ method \in ChatMethods
    /\ LET r == Chat(provider, wire)
       IN  IF r.exc = "none"
           THEN reply' = r.v /\ cpc' = "replied" /\ cexc' = cexc
           ELSE reply' = reply /\ cpc' = "raised" /\ cexc' = r.exc
    /\ UNCHANGED <<provider, method, wire, attempts, ret>>
    /\ UNCHANGED coreVars /\ UNCHANGED cliVars /\ UNCHANGED configVars

CH_ReviewCode ==
    /\ cpc = "replied" /\ method = "review_code"
    /\ Leave(ReviewCode(reply))
    /\ UNCHANGED <<provider, method, wire, attempts, reply>>
    /\ UNCHANGED coreVars /\ UNCHANGED cliVars /\ UNCHANGED configVars

CH_ImproveCommitMsg ==
    /\ cpc = "replied" /\ method = "improve_commit_msg"
    /\ Leave(ImproveCommitMsg(reply))
    /\ UNCHANGED <<provider, method, wire, attempts, reply>>
    /\ UNCHANGED coreVars /\ UNCHANGED cliVars /\ UNCHANGED configVars

NextChat == CH_Send \/ CH_HealthCheck \/ CH_Chat \/ CH_ReviewCode \/ CH_ImproveCommitMsg

SpecChat == InitChat /\ [][NextChat]_vars

ChatTerminal == cpc \in {"done", "raised"}

\* the request failed: no response, a status outside 2xx, or a body that
\* does not hold a reply text where the backend's envelope has it
NoResponse == wire.kind # "response"
BadStatus == wire.kind = "response" /\ wire.status \notin 200..299
EnvelopeHasReply ==
    /\ wire.kind = "response" /\ wire.json
    /\ Walk(wire.body, ReplyPath(provider)).exc = "none"
    /\ Walk(wire.body, ReplyPath(provider)).v.t = "str"
RequestFailed == NoResponse \/ BadStatus \/ ~EnvelopeHasReply

\* C12: review_code and improve_commit_msg of every provider leave with
\* ProviderError, and with no other exception, when the request got no
\* response (network failure, timeout), a non-2xx status, or an envelope
\* without the reply field; a well-formed envelope whose reply is malformed
\* issue JSON makes review_code return a ReviewResult.
C12_FailuresAreProviderError ==
    (method \in ChatMethods /\ ChatTerminal) =>
        IF RequestFailed THEN cpc = "raised" /\ cexc = "ProviderError"
        ELSE method = "review_code" => (cpc = "done" /\ ret.t = "ReviewResult")

\* the probe succeeded: a response with a success status
ProbeSucceeded == wire.kind = "response" /\ wire.status \in 200..299

\* C13: for every provider and every outcome of the probe health_check
\* raises nothing and returns a pair (ok, reason): ok is a boolean, true
\* exactly when the probe succeeded, and reason a non-empty string.
C13_HealthCheckReturnsPair ==
    (method = "health_check" /\ ChatTerminal) =>
        /\ cpc = "done" /\ cexc = "none"
        /\ ret.t = "tuple"
        /\ ret.b = ProbeSucceeded
        /\ ret.s # <<>>

\* C17: a call whose request fails at transport level is tried again, up to
\* 3 times, before the failure leaves the call; the requests of one call
\* never exceed that bound.
C17_TransportFailureRetried ==
    /\ attempts <= 1 + 3
    /\ (provider \in HttpxProviders /\ ChatTerminal /\ NoResponse) => attempts > 1

(***************************************************************************)
(* cli.py: the commands review, check-commit and health-check              *)
(***************************************************************************)
Commands == {"review", "check-commit", "health-check", "pre-push"}

\* the subcommands registered on the group `main`
Subcommands == {"check-commit", "health-check", "config", "hook"}
Formats == {"terminal", "markdown", "json"}

\* what Config and the environment resolve to: the provider name ("": none),
\* whether resolve_token finds a token, whether <provider>.base_url is set,
\* and the raw review.max_diff_lines (<<>>: unset)
ProviderNames == {"", "ollama", "openai", "enterprise", "nonexistent"}
Configs ==
    [provider : ProviderNames, token : BOOLEAN, base_url : BOOLEAN,
     max_diff_lines : {<<>>, <<"1">>, <<"0">>, <<"-1">>, <<"x">>}]

\* _build_provider: ProviderNotConfiguredError for no name, an unknown name,
\* openai without a token, enterprise without a base_url.  Otherwise
\* float() of the configured timeout (ValueError when it is no number) and
\* the constructor call with timeout=timeout (TypeError: the constructors
\* under llm/ take no timeout keyword).
_build_provider(c) ==
    IF c.provider = "" THEN {"ProviderNotConfiguredError"}
    ELSE IF c.provider = "ollama" THEN {"TypeError", "ValueError"}
    ELSE IF c.provider = "openai" THEN
        (IF ~c.token THEN {"ProviderNotConfiguredError"} ELSE {"TypeError", "ValueError"})
    ELSE IF c.provider = "enterprise" THEN
        (IF ~c.base_url THEN {"ProviderNotConfiguredError"} ELSE {"TypeError", "ValueError"})
    ELSE {"ProviderNotConfiguredError"}

\* the outcomes the call sites of _build_provider are checked against: those
\* above and, for a configured provider, the two the handlers at the call
\* sites provide for besides: a provider instance and ProviderError
BuildProvider(c) ==
    IF _build_provider(c) = {"ProviderNotConfiguredError"} THEN _build_provider(c)
    ELSE _build_provider(c) \cup {"provider", "ProviderError"}

\* get_staged_diff: GitError, or the lines of the diff (<<>>: nothing staged)
StagedDiffs ==
    {[exc |-> "GitError", lines |-> <<>>]}
    \cup {[exc |-> "none", lines |-> l] :
            l \in {<<>>, <<"+a">>, <<"+a", "-b", "+c">>}}

\* max_lines = int(max_lines_raw) if max_lines_raw else DEFAULT_MAX_DIFF_LINES
DEFAULT_MAX_DIFF_LINES == 2000
MaxLines(raw) ==
    IF raw = <<>> THEN Value(JInt(DEFAULT_MAX_DIFF_LINES)) ELSE PyInt(JStr(raw))

\* lines[:n]
Slice(lines, n) ==
    IF n >= 0 THEN SubSeq(lines, 1, Min({n, Len(lines)}))
    ELSE SubSeq(lines, 1, Max({Len(lines) + n, 0}))

\* "\n".join(lines[:max_lines]) + "\n... (truncated: ...)", as lines: the
\* join of no line is the empty text, which is one empty line
Truncated(lines, n) ==
    IF Len(lines) > n
    THEN (IF Slice(lines, n) = <<>> THEN <<"">> ELSE Slice(lines, n)) \o <<"... (truncated)">>
    ELSE lines

\* reviewer.review_diff(diff, ...): a ReviewResult, ProviderError, or an
\* exception of the HTTP client that the provider lets through
ReviewedIssues ==
    { <<>>,
      <<ReviewIssue("warning", JStr(<<"a.c">>), 1, JStr(<<"m">>))>>,
      <<ReviewIssue("critical", JStr(<<"a.c">>), 1, JStr(<<"m">>))>>,
      <<ReviewIssue("info", JStr(<<"a.c">>), 1, JStr(<<"m">>)),
        ReviewIssue("error", JStr(<<"b.c">>), 7, JStr(<<"m">>))>> }

ReviewOutcomes ==
    {[exc |-> "none", issues |-> iss] : iss \in ReviewedIssues}
    \cup {[exc |-> e, issues |-> <<>>] : e \in {"ProviderError", "httpx.ConnectError"}}

\* ReviewResult.is_blocked
IsBlocked(iss) == \E i \in 1..Len(iss) : Blocks(iss[i].severity)

\* the process ends: sys.exit(code), or the command returns (code 0)
Exit(code, printed) ==
    /\ exit_code' = code /\ output' = output \o printed /\ kpc' = "exited"

\* a printed line: its colour and what it says (for an exception, which)
Printed(style, what) == [style |-> style, text |-> what]
Red(what) == Printed("red", what)

\* an exception no handler catches: traceback, exit status 1
Crash(e) == Exit(1, <<Printed("traceback", e)>>)

\* review ends with the exit status of the result
ExitStatusZero(iss) == 0
ExitStatus(iss) == IF IsBlocked(iss) THEN 1 ELSE 0

\* except ProviderError in _review
ProviderFailedFatal == Exit(1, <<Red("ProviderError")>>)
ProviderFailed ==
    IF graceful THEN Exit(0, <<Printed("yellow", "ProviderError")>>)
    ELSE Exit(1, <<Red("ProviderError")>>)

\* the commit messages that are enumerated: chunks are the runs the pattern
\* ^\[[A-Z]+-\d+\] .+ tells apart
Messages ==
    { <<"[", "BSP", "-", "123", "]", Space, "fix", Space, "bug">>,
      <<"bad", Space, "message">>,
      <<"[", "BSP", "-", "123", "]">> }

UpperRuns == {"BSP", "HAL"}
DigitRuns == {"1", "123", "456"}

\* check_commit_message(message).valid
CheckCommitMessage(m) ==
    LET t == Strip(m)
    IN  /\ Len(t) >= 7
        /\ t[1] = "[" /\ t[2] \in UpperRuns /\ t[3] = "-" /\ t[4] \in DigitRuns
        /\ t[5] = "]" /\ t[6] = Space /\ t[7] # Newline

(***************************************************************************)
(* prompts.py: the review prompt                                           *)
(***************************************************************************)
\* _REVIEW_PROMPT, one chunk for each line and for each line break
_REVIEW_PROMPT ==
    << "You are a senior Android BSP engineer. Review the following git diff and report only serious issues.",
       Newline, Newline,
       "Focus on:", Newline,
       "- Memory leaks (malloc without free, unreleased resources)", Newline,
       "- Null pointer dereference", Newline,
       "- Race conditions, missing lock/mutex protection", Newline,
       "- Hardcoded secrets (keys, passwords, tokens)", Newline,
       "- Obvious logic errors", Newline,
       "- Buffer overflow", Newline, Newline,
       "Do not report:", Newline,
       "- Code style or naming suggestions", Newline,
       "- Performance optimization suggestions", Newline,
       "- Refactoring suggestions", Newline, Newline,
       "Respond with a JSON array only. Each element:", Newline,
       "{\"severity\": \"critical|error|warning|info\", \"file\": \"path\", \"line\": number, \"message\": \"description\"}", Newline,
       "If no issues found, respond with []. No other text." >>

\* s[i..] starts with old
StartsAt(s, i, old) ==
    /\ i + Len(old) - 1 <= Len(s)
    /\ \A k \in 1..Len(old) : s[i + k - 1] = old[k]

\* str.replace(old, new), old not empty: every occurrence, left to right
RECURSIVE ReplaceFrom(_, _, _, _)
ReplaceFrom(s, i, old, new) ==
    IF i > Len(s) THEN <<>>
    ELSE IF StartsAt(s, i, old) THEN new \o ReplaceFrom(s, i + Len(old), old, new)
    ELSE <<s[i]>> \o ReplaceFrom(s, i + 1, old, new)

Replace(s, old, new) == ReplaceFrom(s, 1, old, new)

\* the clause get_review_prompt puts in for the rules
RulesClauseAfter(rules) ==
    <<Newline, "Do not report:", Newline, "Additional rules:", Newline, "- ">> \o rules

RulesClause(rules) ==
    <<Newline, "Additional rules:", Newline, "- ">> \o rules \o <<Newline, Newline, "Do not report:">>

\* get_review_prompt(custom_rules)
get_review_prompt(rules) ==
    IF rules.t = "NoneType" \/ rules.s = <<>> THEN _REVIEW_PROMPT
    ELSE Replace(_REVIEW_PROMPT, <<Newline, "Do not report:">>, RulesClause(rules.s))

\* the values of review.custom_rules that are enumerated
CustomRules ==
    { JNull, JStr(<<>>), JStr(<<"check integer overflow">>),
      JStr(<<"flag TODO", Newline, "Do not report:", Newline, "Additional rules:">>) }

\* one call: the function, the diff it returned or was given, the prompt it
\* was given, and how it ended ("none": it returned, "provider": it returned
\* a provider, else the exception it raised)
Call(fn, d, p, out) == [fn |-> fn, diff |-> d, prompt |-> p, out |-> out]


InitCli ==
    /\ command \in Commands /\ graceful \in BOOLEAN /\ output_format \in Formats
    /\ config \in Configs
    /\ commit_msg \in (IF command = "check-commit" THEN Messages ELSE {<<>>})
    /\ file_text \in (IF command = "check-commit"
                      THEN {<<"none">>, commit_msg \o <<Newline>>} ELSE {<<"none">>})
    /\ diff = <<>> /\ returned = NoReturn
    /\ output = <<>> /\ exit_code = 0 /\ kpc = "start"
    /\ custom_rules \in (IF command = "review" THEN CustomRules ELSE {JNull})
    /\ calls = <<>>
    /\ ParseIdle /\ ResultIdle /\ PushIdle /\ ChatIdle /\ ConfigIdle

cliInputs == <<command, graceful, output_format, config, commit_msg, custom_rules>>

\* _review: if not diff
NothingStagedNever(lines) == FALSE
NothingStaged(lines) == lines = <<>>

\* _review: get_staged_diff and the test for an empty diff
RV_StagedDiff ==
    /\ kpc = "start" /\ command = "review"
    /\ \E d \in StagedDiffs :
          /\ calls' = Append(calls, Call("get_staged_diff", d.lines, <<>>, d.exc))
          /\ IF d.exc # "none" THEN Exit(1, <<Red(d.exc)>>) /\ diff' = diff
             ELSE IF NothingStaged(d.lines) THEN Exit(0, <<Printed("dim", "no changes")>>) /\ diff' = diff
             ELSE diff' = d.lines /\ kpc' = "truncate" /\ UNCHANGED <<output, exit_code>>
    /\ UNCHANGED <<cliInputs, file_text, returned>>
    /\ UNCHANGED coreVars /\ UNCHANGED chatVars /\ UNCHANGED configVars

\* _review: the diff is cut to max_lines lines and a marker line
RV_Truncate ==
    /\ kpc = "truncate"
    /\ LET m == MaxLines(config.max_diff_lines)
       IN  IF m.exc # "none" THEN Crash(m.exc) /\ diff' = diff
           ELSE /\ diff' = Truncated(diff, m.v.n)
                /\ output' = output \o (IF Len(diff) > m.v.n THEN <<Printed("yellow", "truncated")>> ELSE <<>>)
                /\ kpc' = "build" /\ exit_code' = exit_code
    /\ UNCHANGED <<cliInputs, file_text, returned, calls>>
    /\ UNCHANGED coreVars /\ UNCHANGED chatVars /\ UNCHANGED configVars

\* _review: _build_provider and its two handlers
RV_Build ==
    /\ kpc = "build"
    /\ \E b \in BuildProvider(config) :
          /\ calls' = Append(calls, Call("_build_provider", <<>>, <<>>, b))
          /\ IF b = "provider" THEN kpc' = "review" /\ UNCHANGED <<output, exit_code>>
             ELSE IF b = "ProviderNotConfiguredError" THEN Exit(1, <<Red(b)>>)
             ELSE IF b = "ProviderError" THEN ProviderFailed
             ELSE Crash(b)
    /\ UNCHANGED <<cliInputs, file_text, diff, returned>>
    /\ UNCHANGED coreVars /\ UNCHANGED chatVars /\ UNCHANGED configVars

\* _review: review_diff, the report, and the exit status
RV_Review ==
    /\ kpc = "review"
    /\ \E r \in ReviewOutcomes :
          /\ calls' = Append(calls, Call("review_code", diff, get_review_prompt(custom_rules), r.exc))
          /\ IF r.exc = "none"
             THEN /\ returned' = ReviewResult(r.issues)
                  /\ Exit(ExitStatus(r.issues), <<Printed(output_format, "report")>>)
             ELSE /\ returned' = returned
                  /\ IF r.exc = "ProviderError" THEN ProviderFailed ELSE Crash(r.exc)
    /\ UNCHANGED <<cliInputs, file_text, diff>>
    /\ UNCHANGED coreVars /\ UNCHANGED chatVars /\ UNCHANGED configVars

\* check_commit: the message is read and its format checked; without a
\* message file the command ends here
CC_Format ==
    /\ kpc = "start" /\ command = "check-commit"
    /\ IF ~CheckCommitMessage(commit_msg) THEN Exit(1, <<Red("invalid format")>>)
       ELSE IF file_text = <<"none">> THEN Exit(0, <<Printed("green", "format ok")>>)
       ELSE output' = Append(output, Printed("green", "format ok")) /\ kpc' = "cc_build" /\ exit_code' = exit_code
    /\ UNCHANGED <<cliInputs, file_text, diff, returned, calls>>
    /\ UNCHANGED coreVars /\ UNCHANGED chatVars /\ UNCHANGED configVars

\* except ProviderNotConfiguredError in check_commit
CaughtInCheckCommitBuild == {"ProviderNotConfiguredError"}

\* check_commit: _build_provider; without a provider the command returns
CC_Build ==
    /\ kpc = "cc_build"
    /\ \E b \in BuildProvider(config) :
          /\ calls' = Append(calls, Call("_build_provider", <<>>, <<>>, b))
          /\ IF b = "provider" THEN kpc' = "cc_diff" /\ UNCHANGED <<output, exit_code>>
             ELSE IF b \in CaughtInCheckCommitBuild THEN Exit(0, <<>>)
             ELSE Crash(b)
    /\ UNCHANGED <<cliInputs, file_text, diff, returned>>
    /\ UNCHANGED coreVars /\ UNCHANGED chatVars /\ UNCHANGED configVars

\* check_commit: get_staged_diff; GitError counts as an empty diff
CC_StagedDiff ==
    /\ kpc = "cc_diff"
    /\ \E d \in StagedDiffs :
          /\ calls' = Append(calls, Call("get_staged_diff", d.lines, <<>>, d.exc))
          /\ IF d.exc # "none" \/ d.lines = <<>> THEN Exit(0, <<>>) /\ diff' = diff
             ELSE diff' = d.lines /\ kpc' = "cc_improve" /\ UNCHANGED <<output, exit_code>>
    /\ UNCHANGED <<cliInputs, file_text, returned>>
    /\ UNCHANGED coreVars /\ UNCHANGED chatVars /\ UNCHANGED configVars

\* reviewer.improve_commit_message(message, diff): the reply of the model,
\* stripped, whatever it is; or an exception
ImproveOutcomes(m) ==
    {[exc |-> "none", s |-> t] :
        t \in {<<>>, m, <<Space>> \o m \o <<Newline>>,
               <<"[", "BSP", "-", "123", "]", Space, "fix", Space, "boot", Space, "bug">>,
               <<"fix", Space, "boot", Space, "bug">>}}
    \cup {[exc |-> e, s |-> <<>>] : e \in {"ProviderError", "httpx.ConnectError"}}

\* if improved and improved.strip() != message
SuggestsAlways(improved, message) == TRUE
Suggests(improved, message) == improved # <<>> /\ Strip(improved) # message

\* check_commit: the improvement call
CC_Improve ==
    /\ kpc = "cc_improve"
    /\ \E r \in ImproveOutcomes(Strip(commit_msg)) :
          /\ calls' = Append(calls, Call("improve_commit_msg", diff, <<>>, r.exc))
          /\ IF r.exc = "ProviderError"
             THEN returned' = returned /\ Exit(0, <<Printed(IF graceful THEN "yellow" ELSE "red", r.exc)>>)
             ELSE IF r.exc # "none" THEN returned' = returned /\ Crash(r.exc)
             ELSE /\ returned' = Str(r.s)
                  /\ IF Suggests(r.s, Strip(commit_msg))
                     THEN /\ output' = Append(output, Printed("bold", "suggestion"))
                          /\ kpc' = "cc_choice" /\ exit_code' = exit_code
                     ELSE Exit(0, <<>>)
    /\ UNCHANGED <<cliInputs, file_text, diff>>
    /\ UNCHANGED coreVars /\ UNCHANGED chatVars /\ UNCHANGED configVars

\* check_commit: accept (also --auto-accept), edit, skip; the prompt aborts
\* at the end of input
CC_Choice ==
    /\ kpc = "cc_choice"
    /\ \/ file_text' = returned.s \o <<Newline>> /\ Exit(0, <<Printed("green", "updated")>>)
       \/ \E edited \in {<<>>, <<"[", "BSP", "-", "1", "]", Space, "edited">>} :
             IF edited # <<>> THEN file_text' = edited /\ Exit(0, <<Printed("green", "updated")>>)
             ELSE file_text' = file_text /\ Exit(0, <<>>)
       \/ file_text' = file_text /\ Exit(0, <<>>)
       \/ file_text' = file_text /\ Exit(1, <<Printed("plain", "Aborted!")>>)
    /\ UNCHANGED <<cliInputs, diff, returned, calls>>
    /\ UNCHANGED coreVars /\ UNCHANGED chatVars /\ UNCHANGED configVars

\* health_check_cmd: _build_provider
HC_Build ==
    /\ kpc = "start" /\ command = "health-check"
    /\ \E b \in BuildProvider(config) :
          /\ calls' = Append(calls, Call("_build_provider", <<>>, <<>>, b))
          /\ IF b = "provider" THEN kpc' = "hc_probe" /\ UNCHANGED <<output, exit_code>>
             ELSE IF b = "ProviderNotConfiguredError" THEN Exit(1, <<Red(b)>>)
             ELSE Crash(b)
    /\ UNCHANGED <<cliInputs, file_text, diff, returned>>
    /\ UNCHANGED coreVars /\ UNCHANGED chatVars /\ UNCHANGED configVars

\* provider.health_check(): the bool of the providers under llm/, or the
\* pair the command unpacks
Pair(b, s) == [t |-> "tuple", b |-> b, s |-> s, issues |-> <<>>]
HealthOutcomes ==
    {Bool(TRUE), Bool(FALSE), Pair(TRUE, <<"Connected">>),
     Pair(FALSE, <<"Connection", Space, "refused">>)}

\* health_check_cmd: ok, msg = provider.health_check()
HC_Probe ==
    /\ kpc = "hc_probe"
    /\ \E h \in HealthOutcomes :
          /\ returned' = h
          /\ IF h.t # "tuple"
             THEN Exit(1, <<Printed("plain", "provider"), Printed("traceback", "TypeError")>>)
             ELSE IF h.b THEN Exit(0, <<Printed("plain", "provider"), Printed("green", "status ok")>>)
             ELSE Exit(1, <<Printed("plain", "provider"), Red("status failed")>>)
    /\ calls' = Append(calls, Call("health_check", <<>>, <<>>, "none"))
    /\ UNCHANGED <<cliInputs, file_text, diff>>
    /\ UNCHANGED coreVars /\ UNCHANGED chatVars /\ UNCHANGED configVars

\* the group `main` resolves the subcommand name before any callback runs;
\* a name that is not registered is a usage error, exit status 2
MAIN_NoSuchCommand ==
    /\ kpc = "start" /\ command \notin Subcommands \cup {"review"}
    /\ Exit(2, <<Printed("plain", "No such command")>>)
    /\ UNCHANGED <<cliInputs, file_text, diff, returned, calls>>
    /\ UNCHANGED coreVars /\ UNCHANGED chatVars /\ UNCHANGED configVars

NextCli ==
    \/ MAIN_NoSuchCommand
    \/ RV_StagedDiff \/ RV_Truncate \/ RV_Build \/ RV_Review
    \/ CC_Format \/ CC_Build \/ CC_StagedDiff \/ CC_Improve \/ CC_Choice
    \/ HC_Build \/ HC_Probe

SpecCli == InitCli /\ [][NextCli]_vars

Exited == kpc = "exited"

\* the review completed: the provider returned a ReviewResult to _review
ReviewCompleted == Exited /\ command = "review" /\ returned.t = "ReviewResult"
HasBlockingIssue ==
    \E i \in 1..Len(returned.issues) : returned.issues[i].severity \in {"critical", "error"}

\* C14: when the review of a non-empty staged diff completes, the process
\* exits with status 1 if the result holds a critical or error issue and with
\* status 0 if it does not, after printing the report, for each of the three
\* output formats.
C14_ExitStatusFollowsBlocked ==
    ReviewCompleted =>
        /\ diff # <<>>
        /\ exit_code = (IF HasBlockingIssue THEN 1 ELSE 0)
        /\ output[Len(output)] = Printed(output_format, "report")

C14_Witness ==
    /\ ReviewCompleted /\ HasBlockingIssue /\ exit_code = 1
    /\ output_format = "json" /\ Len(returned.issues) = 2 /\ ~graceful

\* a line of the output names ProviderError
ProviderErrorPrinted == \E i \in 1..Len(output) : output[i].text = "ProviderError"

\* C15: in the review command a ProviderError, from building the provider or
\* from review_code, ends the run with exit status 0 and a warning when
\* --graceful is set and with exit status 1 when it is not; a result with a
\* blocking issue ends with exit status 1 with and without --graceful.
C15_GracefulDowngradesProviderError ==
    (Exited /\ command = "review") =>
        /\ ProviderErrorPrinted =>
              IF graceful
              THEN exit_code = 0 /\ output[Len(output)] = Printed("yellow", "ProviderError")
              ELSE exit_code = 1
        /\ (returned.t = "ReviewResult" /\ HasBlockingIssue) => exit_code = 1

C15_Witness ==
    /\ Exited /\ command = "review" /\ graceful /\ diff # <<>>
    /\ ProviderErrorPrinted /\ exit_code = 0 /\ returned.t = "none"

\* the configuration names no provider, an unknown one, or one whose
\* credential or base URL is missing
NotConfigured ==
    \/ config.provider \notin Providers
    \/ config.provider = "openai" /\ ~config.token
    \/ config.provider = "enterprise" /\ ~config.base_url

\* the command is about to call _build_provider
AtBuild == kpc \in {"build", "cc_build"} \/ (kpc = "start" /\ command = "health-check")

\* C16: review, check-commit with a message file, and health-check end with
\* a non-zero exit status when _build_provider finds no provider configured,
\* an unknown provider name or a missing credential, with and without
\* --graceful.
C16_NotConfiguredIsFatal ==
    [][(AtBuild /\ NotConfigured) => (kpc' = "exited" /\ exit_code' # 0)]_vars

(***************************************************************************)
(* config.py, cli.py config_set: two invocations of `config set`           *)
(***************************************************************************)
Invocations == {1, 2}

\* the settings <section>.<key> and the values that are enumerated
Settings == {"provider.default", "ollama.model"}
SetValues == {"ollama", "openai"}

\* a configuration: what each setting holds ("": not set).  The file holds
\* the TOML text of one; an empty file and no file both load as the empty one
EmptyConfig == [k \in Settings |-> ""]
StoredConfigs == {EmptyConfig, [EmptyConfig EXCEPT !["ollama.model"] = "codellama"]}

\* self._data.setdefault(section, {})[key] = value
SetKey(d, k, v) == [d EXCEPT ![k] = v]

InitConfig ==
    /\ initial_file \in StoredConfigs /\ config_file = initial_file
    /\ set_args \in [Invocations -> [key : Settings, value : SetValues]]
    /\ data = [p \in Invocations |-> EmptyConfig]
    /\ spc = [p \in Invocations |-> "load"]
    /\ ParseIdle /\ ResultIdle /\ PushIdle /\ ChatIdle /\ CliIdle

\* Config(): _load reads the file
CS_Load(p) ==
    /\ spc[p] = "load"
    /\ data' = [data EXCEPT ![p] = config_file]
    /\ spc' = [spc EXCEPT ![p] = "set"]
    /\ UNCHANGED <<config_file, initial_file, set_args>>
    /\ UNCHANGED coreVars /\ UNCHANGED chatVars /\ UNCHANGED cliVars

\* Config.set: the key is set in memory
CS_Set(p) ==
    /\ spc[p] = "set"
    /\ data' = [data EXCEPT ![p] = SetKey(data[p], set_args[p].key, set_args[p].value)]
    /\ spc' = [spc EXCEPT ![p] = "open"]
    /\ UNCHANGED <<config_file, initial_file, set_args>>
    /\ UNCHANGED coreVars /\ UNCHANGED chatVars /\ UNCHANGED cliVars

\* Config._save, write_bytes: the file is opened for writing, which empties it
CS_Open(p) ==
    /\ spc[p] = "open"
    /\ config_file' = EmptyConfig
    /\ spc' = [spc EXCEPT ![p] = "write"]
    /\ UNCHANGED <<initial_file, set_args, data>>
    /\ UNCHANGED coreVars /\ UNCHANGED chatVars /\ UNCHANGED cliVars

\* Config._save, write_bytes: the whole of _data is written
CS_Write(p) ==
    /\ spc[p] = "write"
    /\ config_file' = data[p]
    /\ spc' = [spc EXCEPT ![p] = "done"]
    /\ UNCHANGED <<initial_file, set_args, data>>
    /\ UNCHANGED coreVars /\ UNCHANGED chatVars /\ UNCHANGED cliVars

NextConfig == \E p \in Invocations : CS_Load(p) \/ CS_Set(p) \/ CS_Open(p) \/ CS_Write(p)

SpecConfig == InitConfig /\ [][NextConfig]_vars

BothDone == \A p \in Invocations : spc[p] = "done"

\* the file after the two invocations ran one after the other, p first
OneAfterTheOther(p, q) ==
    SetKey(SetKey(initial_file, set_args[p].key, set_args[p].value),
           set_args[q].key, set_args[q].value)

\* C18: whatever way the steps of two `config set` invocations interleave,
\* the configuration file ends as it does when the two run one after the
\* other, in one order or the other.
C18_ConfigSetSerializable ==
    BothDone => config_file \in {OneAfterTheOther(1, 2), OneAfterTheOther(2, 1)}

\* a git command of the log failed
GitFailed == \E i \in 1..Len(gitlog) : gitlog[i].kind # "ok"

\* C19: a git invocation that fails is surfaced as GitError and ends the
\* operation, in every branch of get_push_diff: the direct diff, the
\* merge-base lookups and the diff from a merge-base.
C19_GitFailureIsFatal ==
    (PushTerminal /\ GitFailed) =>
        /\ gitlog[Len(gitlog)].kind # "ok"
        /\ gpc = "raised" /\ gexc = "GitError"

\* C20: every ReviewIssue the parser returns has a line that is an integer
\* of at least 1.
C20_LineIsPositive ==
    \A i \in 1..Len(issues) : issues[i].line \in Nat /\ issues[i].line >= 1

(***************************************************************************)
(* The prompt review_diff hands to the provider                            *)
(***************************************************************************)
\* the calls of the provider's review_code made so far
ReviewCalls == {c \in 1..Len(calls) : calls[c].fn = "review_code"}

\* where the exclusion clause of the base prompt starts in p (0: nowhere)
ExclusionClause == <<"Do not report:", Newline, "- Code style or naming suggestions">>
ExclusionAt(p) ==
    IF \E j \in 1..Len(p) : StartsAt(p, j, ExclusionClause)
    THEN CHOOSE j \in 1..Len(p) : StartsAt(p, j, ExclusionClause)
    ELSE 0

NoRules == custom_rules.t = "NoneType" \/ custom_rules.s = <<>>

\* C21: the prompt review_diff passes to the provider holds, for non-empty
\* custom rules, an "Additional rules:" clause with the rules before the
\* "Do not report:" exclusion clause and none after it, the rest being the
\* base prompt; for rules that are None or empty it is the base prompt, with
\* no "Additional rules" clause.
C21_RulesBeforeExclusion ==
    \A c \in ReviewCalls :
        LET p == calls[c].prompt
            x == ExclusionAt(p)
            b == ExclusionAt(_REVIEW_PROMPT)
        IN  IF NoRules
            THEN p = _REVIEW_PROMPT /\ \A i \in 1..Len(p) : p[i] # "Additional rules:"
            ELSE /\ x > 0
                 /\ \E i \in 1..(x - 1) :
                       StartsAt(p, i, <<"Additional rules:", Newline, "- ">> \o custom_rules.s)
                 /\ \A k \in x..Len(p) : p[k] # "Additional rules:"
                 /\ p = SubSeq(_REVIEW_PROMPT, 1, b - 1)
                        \o <<"Additional rules:", Newline, "- ">> \o custom_rules.s
                        \o <<Newline, Newline>>
                        \o SubSeq(_REVIEW_PROMPT, b, Len(_REVIEW_PROMPT))

C21_Witness ==
    /\ kpc = "exited" /\ ReviewCalls # {} /\ returned.t = "ReviewResult"
    /\ custom_rules.t = "str" /\ Len(custom_rules.s) = 5

\* C22: the command `pre-push` ends with exit status 1 when the review of
\* the push diff is blocked and with exit status 0 otherwise (no ref-update
\* line on stdin, empty diff, review not blocked, ProviderError under
\* --graceful): its exit status is 0 or 1, and 0 without a review.
C22_PrePushReviewsPushDiff ==
    (Exited /\ command = "pre-push") =>
        /\ exit_code \in {0, 1}
        /\ ReviewCalls = {} => exit_code = 0

(***************************************************************************)
(* check-commit: exit status and message file                              *)
(***************************************************************************)
\* the calls of _build_provider made so far, and those that ended as the
\* _build_provider of cli.py ends for the configuration
BuildCalls == {c \in 1..Len(calls) : calls[c].fn = "_build_provider"}
BuiltAsCoded == \A c \in BuildCalls : calls[c].out \in _build_provider(config)

CheckCommitExited == Exited /\ command = "check-commit"

\* C23: check-commit ends with exit status 1 exactly when the trimmed
\* message fails the format check, and then without building or calling a
\* provider; with a valid format it ends with exit status 0, with and
\* without --graceful.
C23_ExitStatusFollowsFormat ==
    (CheckCommitExited /\ BuiltAsCoded) =>
        /\ exit_code = (IF CheckCommitMessage(commit_msg) THEN 0 ELSE 1)
        /\ ~CheckCommitMessage(commit_msg) => calls = <<>>

\* the last call made was fn and it ended as out
LastCall(fn, out) ==
    calls # <<>> /\ calls[Len(calls)].fn = fn /\ calls[Len(calls)].out = out

\* the call of fn, if made, returned
CallReturned(fn, out) == \E c \in 1..Len(calls) : calls[c].fn = fn /\ calls[c].out = out

\* C24: check-commit changes the message file only when the format is
\* valid, a provider was built, the staged diff is not empty, the
\* improvement call returned a suggestion that differs from the message, and
\* the choice is accept or an edit that is not empty; skip, a failed
\* improvement call and an invalid format leave the file as it was.
C24_FileChangesOnlyOnAcceptedSuggestion ==
    [][ file_text' # file_text =>
          /\ command = "check-commit" /\ file_text # <<"none">>
          /\ CheckCommitMessage(commit_msg)
          /\ CallReturned("_build_provider", "provider")
          /\ diff # <<>> /\ CallReturned("get_staged_diff", "none")
          /\ LastCall("improve_commit_msg", "none")
          /\ returned.t = "str" /\ returned.s # <<>>
          /\ Strip(returned.s) # Strip(commit_msg)
          /\ file_text' # <<>>
          /\ kpc' = "exited" /\ exit_code' = 0 ]_vars

\* the file was rewritten with the accepted suggestion
C24_Witness ==
    /\ CheckCommitExited /\ returned.t = "str" /\ returned.s # <<>>
    /\ file_text = returned.s \o <<Newline>>
    /\ file_text # commit_msg \o <<Newline>>

(***************************************************************************)
(* review: the diff handed to the provider                                 *)
(***************************************************************************)
\* the staged diff as get_staged_diff returned it
StagedLines == calls[1].diff

DiffCommands == {i \in 1..Len(gitlog) : gitlog[i].args[1] = <<"diff">>}

\* C26: with a zero remote SHA and a non-zero local SHA at most one diff
\* command is run; it is the last command, so after a candidate has yielded
\* a merge-base no further candidate is tried, and the outcome of that diff
\* is the outcome of get_push_diff: its text is returned, its GitError is
\* raised.
C26_AtMostOneDiff ==
    NewBranchCase =>
        /\ Cardinality(DiffCommands) <= 1
        /\ \A i \in DiffCommands :
              /\ gpc \in {"done", "raised"} /\ i = Len(gitlog)
              /\ IF gitlog[i].kind = "ok"
                 THEN gpc = "done" /\ result = Strip(gitlog[i].out)
                 ELSE gpc = "raised" /\ gexc = "GitError"

(***************************************************************************)
(* review: the calls of one invocation                                     *)
(***************************************************************************)
\* get_staged_diff raised GitError, or returned the empty diff
StagedDiffFailed == calls # <<>> /\ calls[1].fn = "get_staged_diff" /\ calls[1].out = "GitError"
StagedDiffEmpty ==
    calls # <<>> /\ calls[1].fn = "get_staged_diff" /\ calls[1].out = "none" /\ calls[1].diff = <<>>

\* C27: one review invocation calls review_code at most once; when
\* get_staged_diff raises GitError the run ends with exit status 1, when the
\* staged diff is empty it ends with exit status 0, and in both cases
\* neither _build_provider nor review_code is called.
C27_ReviewCodeAtMostOnce ==
    command = "review" =>
        /\ Cardinality(ReviewCalls) <= 1
        /\ (StagedDiffFailed \/ StagedDiffEmpty) =>
              /\ BuildCalls = {} /\ ReviewCalls = {} /\ Len(calls) = 1
              /\ Exited /\ exit_code = (IF StagedDiffFailed THEN 1 ELSE 0)
        /\ (BuildCalls # {} \/ ReviewCalls # {}) =>
              (calls[1].fn = "get_staged_diff" /\ calls[1].diff # <<>>)

C27_Witness ==
    /\ command = "review" /\ Exited /\ StagedDiffEmpty
    /\ exit_code = 0 /\ config.provider = "ollama"

C29_ProviderOrNotConfigured ==
    \A c \in BuildCalls :
        calls[c].out \in _build_provider(config) =>
            calls[c].out \in {"provider", "ProviderNotConfiguredError"}

(***************************************************************************)
(* llm/ollama.py, llm/openai.py, llm/enterprise.py: the _parse_review      *)
(* overrides                                                               *)
(***************************************************************************)
\* except (json.JSONDecodeError, IndexError) of the override of provider p
OverrideCaughtDecoding(p) ==
    CASE p = "ollama" -> {"JSONDecodeError", "IndexError"}
      [] p = "openai" -> {"JSONDecodeError", "IndexError"}
      [] p = "enterprise" -> {"JSONDecodeError", "IndexError"}

\* except (KeyError, ValueError) of the override of provider p
OverrideCaughtPerItemWide(p) ==
    IF p = "enterprise" THEN {"KeyError", "ValueError", "TypeError"} ELSE {"KeyError", "ValueError"}
OverrideCaughtPerItem(p) ==
    CASE p = "ollama" -> {"KeyError", "ValueError"}
      [] p = "openai" -> {"KeyError", "ValueError"}
      [] p = "enterprise" -> {"KeyError", "ValueError"}

\* the loop of the override over the items
RECURSIVE OverrideCollect(_, _, _, _)
OverrideCollect(p, seq, i, acc) ==
    IF i > Len(seq) THEN [exc |-> "none", issues |-> acc]
    ELSE LET b == BuildIssue(seq[i])
         IN  IF b.exc = "none" THEN OverrideCollect(p, seq, i + 1, Append(acc, b.issue))
             ELSE IF b.exc \in OverrideCaughtPerItem(p) THEN OverrideCollect(p, seq, i + 1, acc)
             ELSE [exc |-> b.exc, issues |-> acc]

\* the override of provider p as a function of the reply
OverrideParseReview(p, c) ==
    LET f == StripFence(Strip(c))
        j == JsonLoads(f.text)
        it == Iterate(j.v)
    IN  IF f.exc # "none" THEN
            IF f.exc \in OverrideCaughtDecoding(p) THEN [exc |-> "none", issues |-> <<>>]
            ELSE [exc |-> f.exc, issues |-> <<>>]
        ELSE IF ~j.ok THEN
            IF "JSONDecodeError" \in OverrideCaughtDecoding(p) THEN [exc |-> "none", issues |-> <<>>]
            ELSE [exc |-> "JSONDecodeError", issues |-> <<>>]
        ELSE IF it.exc # "none" THEN [exc |-> it.exc, issues |-> <<>>]
        ELSE OverrideCollect(p, it.seq, 1, <<>>)

\* C30: for every reply the _parse_review of OllamaProvider, OpenAIProvider
\* and EnterpriseProvider ends as the _parse_review of the base class ends:
\* with the same list of issues, or with the same exception.
C30_OverridesMatchBase ==
    ParseTerminal =>
        \A p \in Providers :
            OverrideParseReview(p, content) = [exc |-> exc, issues |-> issues]

\* the base parser has kept one issue and then failed on an element that is
\* no object
C30_Witness ==
    pc = "raised" /\ exc = "TypeError" /\ Len(issues) = 1 /\ StartsWith(content, Fence)

====
